---- MODULE Spec2Model ----
(***************************************************************************)
(* A model of doris_mcp_server/main.py: the six protocol handlers that     *)
(* DorisServer._setup_handlers registers, the ASGI router mcp_app and the  *)
(* start_http life cycle around it, DorisServer.shutdown, and main().      *)
(*                                                                         *)
(* Five specifications share the module, each over its own group of        *)
(* variables (the other groups stay at their initial values):              *)
(*   SpecDispatch  the handlers of _setup_handlers, called by a peer;      *)
(*   SpecHttp      start_http and the requests mcp_app routes;             *)
(*   SpecMain      main(), the start it selects, and shutdown();           *)
(*   SpecFacade    a hosting process calling a start and shutdown();       *)
(*   SpecConfig    the configuration main() resolves.                      *)
(*                                                                         *)
(* Compound values are tuples read through named accessors.                *)
(***************************************************************************)
EXTENDS Integers, Sequences, FiniteSets, TLC

VARIABLES
    \* --- dispatcher (DorisServer._setup_handlers) ---
    handlers,     \* the handler bound to each operation of self.server
    lastCall,     \* the operation a peer called last, with its inputs
    mgrOutcome,   \* what the backing manager did in that call
    reply,        \* how the handler ended: a returned value or a raised exception
    \* --- start_stdio / start_http and the connection manager ---
    pc,           \* where the start method stands
    trace,        \* the life-cycle events so far, in order
    startExc,     \* the exception the start method raised (NoExc: none)
    initCalls,    \* calls of connection_manager.initialize()
    runScope,     \* session_manager.run(): "none", "active" or "exited"
    listener,     \* uvicorn's server.serve(): "none", "serving" or "stopped"
    streams,      \* the stdio_server() stream pair: "none", "open" or "released"
    stdioState,   \* the state of the stdio adapter
    \* --- shutdown ---
    closeCalls,   \* calls of connection_manager.close()
    shutdownLog,  \* the calls of shutdown(), in order
    \* --- main ---
    mainPc,       \* where main() stands
    transport,    \* args.transport
    exitPending,  \* the value of the return statement waiting for finally
    exitCode,     \* what main() returned (-1: not yet)
    cfgPc,        \* where the configuration stands: "idle", "start", "parsed", "resolved"
    environ,      \* os.environ: the text of each setting's variable, or Absent
    argv,         \* the command line: the text given for each option, or Absent
    args,         \* the namespace parse_args() returned
    config,       \* the DorisConfig handed to DorisServer
    \* --- mcp_app: the request being routed ---
    req,          \* the inbound scope: <<method, path, headers>>
    fwd,          \* the scope handed to session_manager.handle_request
    sends,        \* the responses begun through send, in order
    escaped,      \* the exception that left mcp_app (NoExc: none)
    raisedIn,     \* the exception raised inside mcp_app's try block
    fallback500,  \* whether the except clause built the 500 response
    starts,       \* the responses mcp_app's callees handed to send to begin, in order
    scopeAfter,   \* uvicorn's own scope object once mcp_app is over
    \* --- the collaborators behind the server ---
    collab        \* which of them currently fail

dispatchVars == <<handlers, lastCall, mgrOutcome, reply>>
stdioVars == <<streams, stdioState>>
startVars == <<pc, trace, startExc, initCalls, runScope, listener, stdioVars>>
shutdownVars == <<closeCalls, shutdownLog>>
configVars == <<cfgPc, environ, argv, args, config>>
mainVars == <<mainPc, transport, exitPending, exitCode, configVars>>
requestVars == <<req, fwd, sends, escaped, raisedIn, fallback500, starts, scopeAfter>>

vars == <<dispatchVars, startVars, shutdownVars, mainVars, requestVars, collab, shutdownVars, mainVars>>

(***************************************************************************)
(* Bounds.                                                                 *)
(***************************************************************************)
MaxArgs == 2      \* items in the argument mapping of a call
MaxHeaders == 2   \* headers of an inbound request
MaxShutdowns == 3 \* calls of shutdown() by a hosting process

(***************************************************************************)
(* Python values.  A str is either opaque text or the text json.dumps      *)
(* wrote, kept as its token sequence.  A dict is the sequence of its       *)
(* (key, value) items in insertion order.                                  *)
(***************************************************************************)
\* str: <<kind, s, toks>>
Plain(s) == <<"plain", s, <<>>>>
JsonText(toks) == <<"json", "", toks>>
StrKind(x) == x[1]
StrToks(x) == x[3]
EmptyStr == Plain("")

\* A value of an argument mapping, and a token of a JSON text:
\* <<tag, s, n, items>>.
PyStr(s) == <<"str", s, 0, <<>>>>
PyInt(n) == <<"int", "", n, <<>>>>
PyDict(items) == <<"dict", "", 0, items>>
Tag(v) == v[1]
StrOf(v) == v[2]
Items(v) == v[4]
EmptyDict == PyDict(<<>>)

\* Exceptions: <<kind, msg>>; kind is the class as the except clauses tell
\* them apart, msg is str(e).
Exc(kind, msg) == <<kind, msg>>
ExcKind(e) == e[1]
ExcMsg(e) == e[2]
NoExc == Exc("none", "")
\* isinstance(e, Exception): KeyboardInterrupt derives from BaseException only.
\* ExceptionGroup is the aggregate of several failures, an Exception too.
IsException(e) == ExcKind(e) \in {"Exception", "ExceptionGroup"}

(***************************************************************************)
(* json.dumps(obj, ensure_ascii=False, indent=2), as the tokens of the     *)
(* text it writes (the white space that indent=2 adds separates tokens     *)
(* and is not kept), and json.loads, which reads such a text back into a   *)
(* mapping from keys to values.                                            *)
(***************************************************************************)
Punct(c) == <<c, "", 0, <<>>>>

RECURSIVE DumpsItems(_, _)
DumpsValue(v) ==
    IF Tag(v) = "dict"
    THEN <<Punct("{")>> \o DumpsItems(Items(v), 1) \o <<Punct("}")>>
    ELSE <<v>>

DumpsItems(items, i) ==
    IF i > Len(items) THEN <<>>
    ELSE (IF i > 1 THEN <<Punct(",")>> ELSE <<>>)
         \o <<PyStr(items[i][1]), Punct(":")>>
         \o DumpsValue(items[i][2])
         \o DumpsItems(items, i + 1)

json_dumps(obj) == JsonText(DumpsValue(obj))

\* The parsed form of a value: a scalar token, or <<"obj", m>> with m the
\* mapping key -> parsed value.
ParsedObj(m) == <<"obj", m>>
ParseError == <<"error">>
\* What the two parsing steps give: <<value, index after it>>.
Parsed(val, next) == <<val, next>>
ValOf(r) == r[1]
NextOf(r) == r[2]

RECURSIVE ParseValue(_, _)
RECURSIVE ParseMembers(_, _, _)
ParseValue(toks, i) ==
    IF i > Len(toks) THEN Parsed(ParseError, i)
    ELSE IF Tag(toks[i]) = "{" THEN
        IF i + 1 <= Len(toks) /\ Tag(toks[i + 1]) = "}"
        THEN Parsed(ParsedObj(<<>>), i + 2)
        ELSE ParseMembers(toks, i + 1, <<>>)
    ELSE IF Tag(toks[i]) \in {"str", "int"} THEN Parsed(toks[i], i + 1)
    ELSE Parsed(ParseError, i)

ParseMembers(toks, i, acc) ==
    IF i + 2 > Len(toks) \/ Tag(toks[i]) # "str" \/ Tag(toks[i + 1]) # ":"
    THEN Parsed(ParseError, i)
    ELSE LET key == StrOf(toks[i])
             v   == ParseValue(toks, i + 2)
             \* a repeated key keeps the later value, as json.loads does
             new == [k \in (DOMAIN acc) \cup {key} |->
                        IF k = key THEN ValOf(v) ELSE acc[k]]
         IN  IF ValOf(v) = ParseError \/ NextOf(v) > Len(toks)
             THEN Parsed(ParseError, NextOf(v))
             ELSE IF Tag(toks[NextOf(v)]) = "}"
             THEN Parsed(ParsedObj(new), NextOf(v) + 1)
             ELSE IF Tag(toks[NextOf(v)]) = ","
             THEN ParseMembers(toks, NextOf(v) + 1, new)
             ELSE Parsed(ParseError, NextOf(v))

json_loads(text) ==
    IF StrKind(text) # "json" THEN ParseError
    ELSE LET r == ParseValue(StrToks(text), 1)
         IN  IF NextOf(r) = Len(StrToks(text)) + 1 THEN ValOf(r) ELSE ParseError

(***************************************************************************)
(* The dispatcher: DorisServer._setup_handlers.                            *)
(***************************************************************************)
Operations ==
    {"list_resources", "read_resource", "list_tools",
     "call_tool", "list_prompts", "get_prompt"}

\* The inputs a peer sends and the results a manager gives.
Uris == {"doris://db/t1", ""}
Names == {"x", "exec_query"}
Messages == {"boom", ""}
Texts == {"ok", ""}
DescriptorLists == {<<>>, <<"d1">>, <<"d1", "d2">>}
ArgKeys == {"a", "error", "arguments"}
ArgValues == {PyStr("boom"), PyDict(<<<<"a", PyInt(1)>>>>)}
ArgItems == {<<k, v>> : k \in ArgKeys, v \in ArgValues}
DistinctKeys(items) ==
    \A i, j \in DOMAIN items : items[i][1] = items[j][1] => i = j
ArgSeqs ==
    UNION {{items \in [1..n -> ArgItems] : DistinctKeys(items)} : n \in 0..MaxArgs}
Arguments == {PyDict(items) : items \in ArgSeqs}

\* What a manager call did: <<exc, list, text>>; it returned a list,
\* returned text, or raised.
MgrList(l) == <<NoExc, l, "">>
MgrText(t) == <<NoExc, <<>>, t>>
MgrRaise(m) == <<Exc("Exception", m), <<>>, "">>
MgrExc(o) == o[1]
MgrListOf(o) == o[2]
MgrTextOf(o) == o[3]
NoOutcome == <<NoExc, <<>>, "">>
ListOutcomes == {MgrList(l) : l \in DescriptorLists} \cup {MgrRaise(m) : m \in Messages}
TextOutcomes == {MgrText(t) : t \in Texts} \cup {MgrRaise(m) : m \in Messages}

\* How a handler ends: <<status, shape, list, text, content, exc>>.
ReturnList(l) == <<"return", "list", l, EmptyStr, <<>>, NoExc>>
ReturnStr(t) == <<"return", "str", <<>>, t, <<>>, NoExc>>
ReturnContent(c) == <<"return", "content", <<>>, EmptyStr, c, NoExc>>
Raise(e) == <<"raise", "none", <<>>, EmptyStr, <<>>, e>>
NoReply == <<"none", "none", <<>>, EmptyStr, <<>>, NoExc>>
Status(r) == r[1]
Shape(r) == r[2]
ListOf(r) == r[3]
TextOf(r) == r[4]
ContentOf(r) == r[5]
ExcOf(r) == r[6]

\* mcp.types.TextContent(type=..., text=...): <<type, text>>
TextContent(t) == <<"text", t>>
ContentType(c) == c[1]
ContentText(c) == c[2]

\* A handler whose body is not guarded: the manager's exception leaves it.
TryExcept_Unguarded(o, body, fallback) ==
    IF MgrExc(o) = NoExc THEN body ELSE Raise(MgrExc(o))

\* try: return <body>  except Exception: return <fallback>
TryExcept(o, body, fallback) ==
    IF MgrExc(o) = NoExc THEN body
    ELSE IF IsException(MgrExc(o)) THEN fallback
    ELSE Raise(MgrExc(o))

handle_list_resources(o) == TryExcept(o, ReturnList(MgrListOf(o)), ReturnList(<<>>))

handle_read_resource(uri, o) ==
    TryExcept(o, ReturnStr(Plain(MgrTextOf(o))),
        ReturnStr(json_dumps(PyDict(<<
            <<"error", PyStr("Failed to read resource: " \o ExcMsg(MgrExc(o)))>>,
            <<"uri", PyStr(uri)>> >>))))

handle_list_tools(o) == TryExcept(o, ReturnList(MgrListOf(o)), ReturnList(<<>>))

\* A handler that reports the tool under the prompt handler's field name.
handle_call_tool_PromptField(name, arguments, o) ==
    TryExcept(o, ReturnContent(<<TextContent(Plain(MgrTextOf(o)))>>),
        ReturnContent(<<TextContent(json_dumps(PyDict(<<
            <<"error", PyStr("Tool call failed: " \o ExcMsg(MgrExc(o)))>>,
            <<"prompt_name", PyStr(name)>>,
            <<"arguments", arguments>> >>)))>>))

handle_call_tool(name, arguments, o) ==
    TryExcept(o, ReturnContent(<<TextContent(Plain(MgrTextOf(o)))>>),
        ReturnContent(<<TextContent(json_dumps(PyDict(<<
            <<"error", PyStr("Tool call failed: " \o ExcMsg(MgrExc(o)))>>,
            <<"tool_name", PyStr(name)>>,
            <<"arguments", arguments>> >>)))>>))

handle_list_prompts(o) == TryExcept(o, ReturnList(MgrListOf(o)), ReturnList(<<>>))

handle_get_prompt(name, arguments, o) ==
    TryExcept(o, ReturnStr(Plain(MgrTextOf(o))),
        ReturnStr(json_dumps(PyDict(<<
            <<"error", PyStr("Failed to get prompt: " \o ExcMsg(MgrExc(o)))>>,
            <<"prompt_name", PyStr(name)>>,
            <<"arguments", arguments>> >>))))

\* The bindings the decorators of _setup_handlers make, once, in __init__:
\* <<operation, handler>> in the order of registration.
SetupHandlers ==
    << <<"list_resources", "handle_list_resources">>,
       <<"read_resource", "handle_read_resource">>,
       <<"list_tools", "handle_list_tools">>,
       <<"call_tool", "handle_call_tool">>,
       <<"list_prompts", "handle_list_prompts">>,
       <<"get_prompt", "handle_get_prompt">> >>

\* A call: <<op, uri, name, arguments>>.
Call(op, uri, name, arguments) == <<op, uri, name, arguments>>
CallOp(c) == c[1]
CallUri(c) == c[2]
CallName(c) == c[3]
CallArgs(c) == c[4]
NoCall == Call("none", "", "", EmptyDict)

\* DorisServer.__init__: the handlers are bound, nothing was called yet.
DispatcherBuilt ==
    /\ handlers = SetupHandlers
    /\ lastCall = NoCall
    /\ mgrOutcome = NoOutcome
    /\ reply = NoReply

\* A dispatcher that registers the handler anew whenever it is called.
Dispatch_Rebinding(call, o, r) ==
    /\ \E i \in DOMAIN handlers : handlers[i][1] = CallOp(call)
    /\ lastCall' = call
    /\ mgrOutcome' = o
    /\ reply' = r
    /\ handlers' = (IF Len(handlers) < 7
                    THEN Append(handlers, <<CallOp(call), "handle_" \o CallOp(call)>>)
                    ELSE handlers)
    /\ UNCHANGED <<startVars, requestVars, collab, shutdownVars, mainVars>>

\* A peer calls an operation; the bound handler runs to its end.
Dispatch(call, o, r) ==
    /\ \E i \in DOMAIN handlers : handlers[i][1] = CallOp(call)
    /\ lastCall' = call
    /\ mgrOutcome' = o
    /\ reply' = r
    /\ UNCHANGED <<handlers, startVars, requestVars, collab, shutdownVars, mainVars>>

ListResources ==
    \E o \in ListOutcomes :
        Dispatch(Call("list_resources", "", "", EmptyDict), o, handle_list_resources(o))

ReadResource ==
    \E uri \in Uris, o \in TextOutcomes :
        Dispatch(Call("read_resource", uri, "", EmptyDict), o, handle_read_resource(uri, o))

ListTools ==
    \E o \in ListOutcomes :
        Dispatch(Call("list_tools", "", "", EmptyDict), o, handle_list_tools(o))

CallTool ==
    \E name \in Names, arguments \in Arguments, o \in TextOutcomes :
        Dispatch(Call("call_tool", "", name, arguments), o,
                 handle_call_tool(name, arguments, o))

ListPrompts ==
    \E o \in ListOutcomes :
        Dispatch(Call("list_prompts", "", "", EmptyDict), o, handle_list_prompts(o))

GetPrompt ==
    \E name \in Names, arguments \in Arguments, o \in TextOutcomes :
        Dispatch(Call("get_prompt", "", name, arguments), o,
                 handle_get_prompt(name, arguments, o))

NextDispatch ==
    \/ ListResources
    \/ ReadResource
    \/ ListTools
    \/ CallTool
    \/ ListPrompts
    \/ GetPrompt

(***************************************************************************)
(* start_http: connection_manager.initialize(), then the session           *)
(* manager's run scope around uvicorn's server.serve().  One action per    *)
(* await; an except clause runs within the action whose await raised.      *)
(***************************************************************************)
\* What an awaited collaborator call can do: complete, fail, or be cut
\* short by the interrupt signal.
InitOutcomes ==
    {NoExc, Exc("Exception", "connect failed"), Exc("KeyboardInterrupt", "")}
RunEnterOutcomes ==
    {NoExc, Exc("Exception", "session manager failed")}
\* serve() returns on a graceful stop; it, or the task group of the run
\* scope around it, may raise one failure or an aggregate of several.
ServeOutcomes ==
    {NoExc, Exc("Exception", "listener failed"),
     Exc("ExceptionGroup", "unhandled errors in a TaskGroup"),
     Exc("KeyboardInterrupt", "")}

\* except Exception as e: log ...; raise.  Any other exception passes by.
LogAndReraise(e) == IF IsException(e) THEN <<"log_error">> ELSE <<>>

\* The start method ends by raising e.
StartRaises(e, events) ==
    /\ pc' = "raised"
    /\ startExc' = e
    /\ trace' = trace \o events \o LogAndReraise(e)

\* A start that logs a failed initialize() and carries on.
HttpInitialize_CarryOn ==
    /\ pc = "http_entry"
    /\ initCalls' = initCalls + 1
    /\ \E e \in InitOutcomes :
          /\ pc' = "http_initialized"
          /\ trace' = trace \o (IF e = NoExc THEN <<"initialize", "initialize_ok">>
                                ELSE <<"initialize", "initialize_raised">>)
          /\ UNCHANGED startExc
    /\ UNCHANGED <<runScope, listener, stdioVars,
                 dispatchVars, requestVars, collab, shutdownVars, mainVars>>

HttpInitialize ==
    /\ pc = "http_entry"
    /\ initCalls' = initCalls + 1
    /\ \E e \in InitOutcomes :
          IF e = NoExc
          THEN /\ pc' = "http_initialized"
               /\ trace' = trace \o <<"initialize", "initialize_ok">>
               /\ UNCHANGED startExc
          ELSE StartRaises(e, <<"initialize", "initialize_raised">>)
    /\ UNCHANGED <<runScope, listener, stdioVars,
                 dispatchVars, requestVars, collab, shutdownVars, mainVars>>

\* async with session_manager.run():
HttpEnterRun ==
    /\ pc = "http_initialized"
    /\ \E e \in RunEnterOutcomes :
          IF e = NoExc
          THEN /\ pc' = "http_running"
               /\ runScope' = "active"
               /\ trace' = Append(trace, "run_enter")
               /\ UNCHANGED startExc
          ELSE /\ StartRaises(e, <<"run_enter_raised">>)
               /\ UNCHANGED runScope
    /\ UNCHANGED <<initCalls, listener, stdioVars,
                 dispatchVars, requestVars, collab, shutdownVars, mainVars>>

\* await server.serve(): the listener begins to accept.
HttpServe ==
    /\ pc = "http_running"
    /\ pc' = "http_serving"
    /\ listener' = "serving"
    /\ trace' = Append(trace, "serve")
    /\ UNCHANGED <<startExc, initCalls, runScope, stdioVars,
                 dispatchVars, requestVars, collab, shutdownVars, mainVars>>

\* A start that leaves the run scope once start_http is over, not before.
HttpServeEnd_ScopeLeftOpen ==
    /\ pc = "http_serving"
    /\ listener' = "stopped"
    /\ UNCHANGED runScope
    /\ \E e \in ServeOutcomes :
          IF e = NoExc
          THEN /\ pc' = "returned"
               /\ trace' = trace \o <<"serve_end">>
               /\ UNCHANGED startExc
          ELSE StartRaises(e, <<"serve_raised">>)
    /\ UNCHANGED <<initCalls, stdioVars,
                 dispatchVars, requestVars, collab, shutdownVars, mainVars>>

\* serve() ends; the run scope is left in the same unwind; start_http
\* returns, or logs and re-raises.
HttpServeEnd ==
    /\ pc = "http_serving"
    /\ listener' = "stopped"
    /\ runScope' = "exited"
    /\ \E e \in ServeOutcomes :
          IF e = NoExc
          THEN /\ pc' = "returned"
               /\ trace' = trace \o <<"serve_end", "run_exit">>
               /\ UNCHANGED startExc
          ELSE StartRaises(e, <<"serve_raised", "run_exit">>)
    /\ UNCHANGED <<initCalls, stdioVars,
                 dispatchVars, requestVars, collab, shutdownVars, mainVars>>

StartBuilt(entry) ==
    /\ pc = entry
    /\ trace = <<>>
    /\ startExc = NoExc
    /\ initCalls = 0
    /\ runScope = "none"
    /\ listener = "none"
    /\ streams = "none"
    /\ stdioState = "Unstarted"
    /\ closeCalls = 0
    /\ shutdownLog = <<>>

(***************************************************************************)
(* mcp_app: the ASGI application uvicorn calls for every request.          *)
(***************************************************************************)
\* Paths are sequences of characters.
HealthPath == <<"/", "h", "e", "a", "l", "t", "h">>
McpPath == <<"/", "m", "c", "p">>
Slash == <<"/">>
Paths ==
    {HealthPath, HealthPath \o Slash, HealthPath \o <<"z">>,
     McpPath, McpPath \o Slash, McpPath \o <<"/", "x">>, McpPath \o <<"x">>,
     <<"/", "n", "o", "p", "e">>, Slash, <<>>}
Methods == {"GET", "POST"}

\* str.startswith, str.endswith, str.rstrip("/")
StartsWith(str, prefix) ==
    Len(str) >= Len(prefix) /\ SubSeq(str, 1, Len(prefix)) = prefix
EndsWith(str, suffix) ==
    Len(str) >= Len(suffix)
    /\ SubSeq(str, Len(str) - Len(suffix) + 1, Len(str)) = suffix
RECURSIVE RStripSlash(_)
RStripSlash(str) ==
    IF EndsWith(str, Slash) THEN RStripSlash(SubSeq(str, 1, Len(str) - 1)) ELSE str

\* A header value is a byte string, kept as the sequence of its pieces; the
\* piece BadBytes is not valid UTF-8.
EventStream == "text/event-stream"
AppJson == "application/json"
BadBytes == "\\xff"
AcceptValues ==
    {<<EventStream>>, <<EventStream, ", ", AppJson>>, <<AppJson>>,
     <<EventStream, BadBytes>>}
HeaderItems ==
    {<<"accept", v>> : v \in AcceptValues} \cup {<<"user-agent", <<"Dify">>>>}
HeaderLists == UNION {[1..n -> HeaderItems] : n \in 0..MaxHeaders}

\* A scope: <<method, path, headers>>.
Scope(method, path, headers) == <<method, path, headers>>
Method(sc) == sc[1]
Path(sc) == sc[2]
Headers(sc) == sc[3]
NoScope == Scope("", <<>>, <<>>)
Requests == {Scope(mt, p, h) : mt \in Methods, p \in Paths, h \in HeaderLists}

\* dict(scope.get("headers", [])).get(name, b''): the last header of that
\* name wins.
RECURSIVE HeadersGet(_, _, _)
HeadersGet(headers, name, n) ==
    IF n = 0 THEN <<>>
    ELSE IF headers[n][1] = name THEN headers[n][2]
    ELSE HeadersGet(headers, name, n - 1)

\* bytes.decode('utf-8') raises UnicodeDecodeError on invalid bytes.
Decodable(value) == \A i \in DOMAIN value : value[i] # BadBytes
\* 'needle' in accept_header
Contains(value, needle) == \E i \in DOMAIN value : value[i] = needle
UnicodeDecodeError == Exc("Exception", "'utf-8' codec can't decode byte 0xff")

\* A response: <<status, body>>.
Response(body, status) == <<status, body>>
StatusOf(r) == r[1]
BodyOf(r) == r[2]

\* A health check that probes the collaborators before it answers.
health_check_Probing ==
    IF collab = "healthy"
    THEN Response(json_dumps(PyDict(<< <<"status", PyStr("healthy")>>,
                                      <<"service", PyStr("doris-mcp-server")>> >>)), 200)
    ELSE Response(json_dumps(PyDict(<< <<"status", PyStr("unhealthy")>>,
                                      <<"service", PyStr("doris-mcp-server")>> >>)), 503)

\* health_check: JSONResponse({...}), status 200 by default.
health_check ==
    Response(json_dumps(PyDict(<< <<"status", PyStr("healthy")>>,
                                 <<"service", PyStr("doris-mcp-server")>> >>)), 200)

\* starlette_app: Starlette(routes=[Route("/health", health_check,
\* methods=["GET"])]).  Its router answers a request whose path matches with
\* the wrong method by 405, one whose path matches once a trailing slash is
\* stripped or added by a redirect (redirect_slashes), any other by 404.
starlette_app(sc) ==
    IF Path(sc) = HealthPath
    THEN IF Method(sc) \in {"GET", "HEAD"}
         THEN health_check
         ELSE Response(Plain("Method Not Allowed"), 405)
    ELSE IF Path(sc) # Slash
            /\ (IF EndsWith(Path(sc), Slash)
                THEN RStripSlash(Path(sc))
                ELSE Path(sc) \o Slash) = HealthPath
    THEN Response(Plain(""), 307)
    ELSE Response(Plain("Not Found"), 404)

\* What session_manager.handle_request does with a forwarded request:
\* <<responses it begins, exception it raises>>.
SessionResponse == Response(Plain("session"), 200)
SessionRefusal == Response(Plain("Not Acceptable"), 406)
SessionError == Exc("Exception", "session error")
SessionBehaviours ==
    {<<<<SessionResponse>>, NoExc>>, <<<<SessionRefusal>>, NoExc>>,
     <<<<>>, SessionError>>, <<<<SessionResponse>>, SessionError>>}

\* new_headers: every accept header gets ', application/json' appended.
RewriteAccept(headers) ==
    [i \in DOMAIN headers |->
        IF headers[i][1] = "accept"
        THEN <<headers[i][1], headers[i][2] \o <<", ", AppJson>>>>
        ELSE headers[i]]

\* The Dify compatibility block: the scope to forward, or the exception a
\* decode raised, and the scope object of the caller as the block leaves
\* it.  <<scope, exc, caller's scope>>
NeedsRewrite(accept_header) ==
    Contains(accept_header, EventStream) /\ ~Contains(accept_header, AppJson)

\* A bridge that logs the new Accept value and forwards the scope it got.
PrepareForward_LogOnly(sc) ==
    LET headers == Headers(sc)
        accept == HeadersGet(headers, "accept", Len(headers))
        agent == HeadersGet(headers, "user-agent", Len(headers))
    IN  IF Method(sc) # "GET" THEN <<sc, NoExc, sc>>
        ELSE IF ~Decodable(accept) \/ ~Decodable(agent)
        THEN <<NoScope, UnicodeDecodeError, sc>>
        ELSE <<sc, NoExc, sc>>

\* A bridge that rewrites the header list of the scope it was given.
PrepareForward_InPlace(sc) ==
    LET headers == Headers(sc)
        accept == HeadersGet(headers, "accept", Len(headers))
        agent == HeadersGet(headers, "user-agent", Len(headers))
        rewritten == Scope(Method(sc), Path(sc), RewriteAccept(headers))
    IN  IF Method(sc) # "GET" THEN <<sc, NoExc, sc>>
        ELSE IF ~Decodable(accept) \/ ~Decodable(agent)
        THEN <<NoScope, UnicodeDecodeError, sc>>
        ELSE IF ~NeedsRewrite(accept) THEN <<sc, NoExc, sc>>
        ELSE IF \E i \in DOMAIN headers :
                   headers[i][1] = "accept" /\ ~Decodable(headers[i][2])
        THEN <<NoScope, UnicodeDecodeError, sc>>
        ELSE <<rewritten, NoExc, rewritten>>

\* scope = dict(scope); scope["headers"] = new_headers: the copy is what is
\* forwarded, the caller's scope and its header list stay as they were.
PrepareForward(sc) ==
    LET headers == Headers(sc)
        accept == HeadersGet(headers, "accept", Len(headers))
        agent == HeadersGet(headers, "user-agent", Len(headers))
    IN  IF Method(sc) # "GET" THEN <<sc, NoExc, sc>>
        ELSE IF ~Decodable(accept) \/ ~Decodable(agent)
        THEN <<NoScope, UnicodeDecodeError, sc>>
        ELSE IF ~NeedsRewrite(accept) THEN <<sc, NoExc, sc>>
        ELSE IF \E i \in DOMAIN headers :
                   headers[i][1] = "accept" /\ ~Decodable(headers[i][2])
        THEN <<NoScope, UnicodeDecodeError, sc>>
        ELSE <<Scope(Method(sc), Path(sc), RewriteAccept(headers)), NoExc, sc>>

\* The body of the try block:
\* <<forwarded scope, responses begun, exception, caller's scope>>.
RouteRequest(sc, sm) ==
    IF StartsWith(Path(sc), HealthPath)
    THEN <<NoScope, <<starlette_app(sc)>>, NoExc, sc>>
    ELSE IF Path(sc) = McpPath \/ StartsWith(Path(sc), McpPath \o Slash)
    THEN LET f == PrepareForward(sc)
         IN  IF f[2] # NoExc THEN <<NoScope, <<>>, f[2], f[3]>>
             ELSE <<f[1], sm[1], sm[2], f[3]>>
    ELSE <<NoScope, <<Response(Plain("Not Found"), 404)>>, NoExc, sc>>

\* send, as uvicorn implements it: a second http.response.start for one
\* request is refused with a RuntimeError.  <<responses begun, exception>>
AsgiProtocolError == Exc("Exception", "Expected ASGI message 'http.response.body'")
AsgiSend(begun, response) ==
    IF begun = <<>> THEN <<<<response>>, NoExc>> ELSE <<begun, AsgiProtocolError>>

\* mcp_app for an http scope: the try block, then except Exception.
\* <<forwarded scope, responses begun, exception leaving mcp_app,
\*   exception raised in the try block, fallback built,
\*   responses handed to send, caller's scope>>
mcp_app(sc, sm) ==
    LET r == RouteRequest(sc, sm)
    IN  IF r[3] = NoExc THEN <<r[1], r[2], NoExc, NoExc, FALSE, r[2], r[4]>>
        ELSE IF IsException(r[3])
        THEN LET fallback == Response(Plain("Internal Server Error"), 500)
                 sent == AsgiSend(r[2], fallback)
             IN  <<r[1], sent[1], sent[2], r[3], TRUE, Append(r[2], fallback), r[4]>>
        ELSE <<r[1], r[2], r[3], r[3], FALSE, r[2], r[4]>>

RequestIdle ==
    /\ req = NoScope
    /\ fwd = NoScope
    /\ sends = <<>>
    /\ escaped = NoExc
    /\ raisedIn = NoExc
    /\ fallback500 = FALSE
    /\ starts = <<>>
    /\ scopeAfter = NoScope

\* uvicorn calls mcp_app with a request; mcp_app runs to its end.
HandleRequest ==
    /\ listener = "serving"
    /\ req = NoScope
    /\ \E sc \in Requests, sm \in SessionBehaviours :
          LET out == mcp_app(sc, sm)
          IN  /\ req' = sc
              /\ fwd' = out[1]
              /\ sends' = out[2]
              /\ escaped' = out[3]
              /\ raisedIn' = out[4]
              /\ fallback500' = out[5]
              /\ starts' = out[6]
              /\ scopeAfter' = out[7]
    /\ UNCHANGED <<dispatchVars, startVars, collab, shutdownVars, mainVars>>

\* uvicorn ends the request cycle and drops its scope.
CompleteRequest ==
    /\ req # NoScope
    /\ req' = NoScope
    /\ fwd' = NoScope
    /\ sends' = <<>>
    /\ escaped' = NoExc
    /\ raisedIn' = NoExc
    /\ fallback500' = FALSE
    /\ starts' = <<>>
    /\ scopeAfter' = NoScope
    /\ UNCHANGED <<dispatchVars, startVars, collab, shutdownVars, mainVars>>

(***************************************************************************)
(* start_stdio: connection_manager.initialize(), then the stdio_server()   *)
(* stream pair around self.server.run().  The inner except clause logs     *)
(* and re-raises, then the outer one does.                                 *)
(***************************************************************************)
OpenOutcomes == {NoExc, Exc("Exception", "cannot open stdio")}
NegotiateOutcomes == {NoExc, Exc("Exception", "get_capabilities failed")}
\* run() returns at the end of the input stream.
RunOutcomes ==
    {NoExc, Exc("Exception", "stream broken"),
     Exc("ExceptionGroup", "unhandled errors in a TaskGroup"),
     Exc("KeyboardInterrupt", "")}

\* except Exception as inner_e: log ...; raise inner_e
\* except Exception as e: log ...; raise
StdioLogAndReraise(e) == IF IsException(e) THEN <<"log_inner", "log_outer">> ELSE <<>>

\* A start that logs the failure and returns.
StdioRaises_Swallowed(e, events) ==
    /\ pc' = (IF IsException(e) THEN "returned" ELSE "raised")
    /\ startExc' = (IF IsException(e) THEN NoExc ELSE e)
    /\ trace' = trace \o events \o StdioLogAndReraise(e)

StdioRaises(e, events) ==
    /\ pc' = "raised"
    /\ startExc' = e
    /\ trace' = trace \o events \o StdioLogAndReraise(e)

\* A start that logs a failed initialize() and goes on to open the streams.
StdioInitialize_CarryOn ==
    /\ pc = "stdio_entry"
    /\ initCalls' = initCalls + 1
    /\ \E e \in InitOutcomes :
          /\ pc' = "stdio_initialized"
          /\ trace' = trace \o (IF e = NoExc THEN <<"initialize", "initialize_ok">>
                                ELSE <<"initialize", "initialize_raised", "log_outer">>)
          /\ UNCHANGED startExc
    /\ UNCHANGED <<runScope, listener, stdioVars,
                   dispatchVars, requestVars, collab, shutdownVars, mainVars>>

\* initialize() is outside the inner try: only the outer clause logs.
StdioInitialize ==
    /\ pc = "stdio_entry"
    /\ initCalls' = initCalls + 1
    /\ \E e \in InitOutcomes :
          IF e = NoExc
          THEN /\ pc' = "stdio_initialized"
               /\ trace' = trace \o <<"initialize", "initialize_ok">>
               /\ UNCHANGED startExc
          ELSE /\ pc' = "raised"
               /\ startExc' = e
               /\ trace' = trace \o <<"initialize", "initialize_raised">>
                                 \o (IF IsException(e) THEN <<"log_outer">> ELSE <<>>)
    /\ UNCHANGED <<runScope, listener, stdioVars,
                   dispatchVars, requestVars, collab, shutdownVars, mainVars>>

\* async with stdio_server() as streams:
StdioOpenStreams ==
    /\ pc = "stdio_initialized"
    /\ \E e \in OpenOutcomes :
          IF e = NoExc
          THEN /\ pc' = "stdio_streams_open"
               /\ streams' = "open"
               /\ stdioState' = "StreamsOpen"
               /\ trace' = Append(trace, "streams_open")
               /\ UNCHANGED startExc
          ELSE /\ StdioRaises(e, <<"streams_open_raised">>)
               /\ UNCHANGED <<streams, stdioState>>
    /\ UNCHANGED <<initCalls, runScope, listener,
                   dispatchVars, requestVars, collab, shutdownVars, mainVars>>

\* self.server.get_capabilities(...), InitializationOptions(...)
StdioNegotiate ==
    /\ pc = "stdio_streams_open"
    /\ \E e \in NegotiateOutcomes :
          IF e = NoExc
          THEN /\ pc' = "stdio_negotiated"
               /\ stdioState' = "CapabilitiesNegotiated"
               /\ trace' = Append(trace, "capabilities")
               /\ UNCHANGED <<startExc, streams>>
          ELSE /\ StdioRaises(e, <<"capabilities_raised", "streams_released">>)
               /\ streams' = "released"
               /\ stdioState' = "Closed"
    /\ UNCHANGED <<initCalls, runScope, listener,
                   dispatchVars, requestVars, collab, shutdownVars, mainVars>>

\* await self.server.run(read_stream, write_stream, init_options) begins.
StdioRun ==
    /\ pc = "stdio_negotiated"
    /\ pc' = "stdio_serving"
    /\ stdioState' = "Serving"
    /\ trace' = Append(trace, "run")
    /\ UNCHANGED <<startExc, streams, initCalls, runScope, listener,
                   dispatchVars, requestVars, collab, shutdownVars, mainVars>>

\* A start whose except clause sits inside the async with: it logs while
\* the streams are still held.
StdioRunEnd_LogThenRelease ==
    /\ pc = "stdio_serving"
    /\ streams' = "released"
    /\ stdioState' = "Closed"
    /\ \E e \in RunOutcomes :
          IF e = NoExc
          THEN /\ pc' = "returned"
               /\ trace' = trace \o <<"run_end", "streams_released">>
               /\ UNCHANGED startExc
          ELSE /\ pc' = "raised"
               /\ startExc' = e
               /\ trace' = trace \o <<"run_raised">> \o StdioLogAndReraise(e)
                                 \o <<"streams_released">>
    /\ UNCHANGED <<initCalls, runScope, listener,
                   dispatchVars, requestVars, collab, shutdownVars, mainVars>>

\* run() ends; the stream pair is released as the async with is left.
StdioRunEnd ==
    /\ pc = "stdio_serving"
    /\ streams' = "released"
    /\ stdioState' = "Closed"
    /\ \E e \in RunOutcomes :
          IF e = NoExc
          THEN /\ pc' = "returned"
               /\ trace' = trace \o <<"run_end", "streams_released">>
               /\ UNCHANGED startExc
          ELSE StdioRaises(e, <<"run_raised", "streams_released">>)
    /\ UNCHANGED <<initCalls, runScope, listener,
                   dispatchVars, requestVars, collab, shutdownVars, mainVars>>

(***************************************************************************)
(* DorisServer.shutdown.                                                   *)
(***************************************************************************)
CloseOutcomes == {NoExc, Exc("Exception", "close failed")}

\* A shutdown that lets the failure of close() out.
shutdown_Unguarded(closed) == closed

\* try: await self.connection_manager.close()  except Exception: log.
\* The exception shutdown() raises (NoExc: it returns).
shutdown(closed) ==
    IF closed = NoExc THEN NoExc
    ELSE IF IsException(closed) THEN NoExc
    ELSE closed

\* One call of shutdown() from a call site, close() ending as closed.
ShutdownCalled(site, closed) ==
    /\ closeCalls' = closeCalls + 1
    /\ shutdownLog' = Append(shutdownLog,
           <<site, closed, IF shutdown(closed) = NoExc THEN "returned" ELSE "raised">>)

\* An entry of shutdownLog: <<call site, what close() did, how shutdown() ended>>.
SiteOf(entry) == entry[1]
ClosedOf(entry) == entry[2]
EndOf(entry) == entry[3]

(***************************************************************************)
(* The configuration main() hands to DorisServer: create_arg_parser(),     *)
(* parse_args(), DorisConfig.from_env() and the overrides that follow.     *)
(* A setting is a position in the tuples below.                            *)
(***************************************************************************)
DbHost == 1
DbPort == 2
DbUser == 3
DbDatabase == 4
LogLevel == 5
DbPassword == 6
Settings == {DbHost, DbPort, DbUser, DbDatabase, LogLevel, DbPassword}

\* _default_config = DorisConfig(): the built-in defaults.
DefaultConfig == <<"localhost", 9030, "root", "information_schema", "INFO", "">>
\* Another text an environment variable or a command-line word may hold.
OtherText == <<"db.example", "9031", "admin", "sales", "DEBUG", "secret">>
\* The text that reads as the built-in default.
DefaultText == <<"localhost", "9030", "root", "information_schema", "INFO", "">>
Absent == "<absent>"

\* int(text), for the texts in use.
int(text) == IF text = "9030" THEN 9030 ELSE 9031

\* type=int for --db-port, type=str for the others.
ArgType(i, text) == IF i = DbPort THEN int(text) ELSE text

\* The environments and command lines considered.  --db-password has no
\* environment default in the parser; on the command line it is given or not.
Texts3(i) == {Absent, DefaultText[i], OtherText[i]}
Environs ==
    {<<h, p, u, d, l, Absent>> :
        h \in Texts3(DbHost), p \in Texts3(DbPort), u \in Texts3(DbUser),
        d \in Texts3(DbDatabase), l \in Texts3(LogLevel)}
CommandLines ==
    {<<h, p, u, d, l, w>> :
        h \in Texts3(DbHost), p \in Texts3(DbPort), u \in Texts3(DbUser),
        d \in Texts3(DbDatabase), l \in Texts3(LogLevel),
        w \in {Absent, OtherText[DbPassword]}}

\* default=os.getenv(NAME, _default_config...): a default that is a string
\* goes through the option's type, any other is taken as it is.
ArgDefault(env, i) ==
    IF i = DbPassword THEN ""
    ELSE IF env[i] = Absent THEN DefaultConfig[i]
    ELSE ArgType(i, env[i])

\* parser.parse_args()
parse_args(env, line) ==
    [i \in Settings |-> IF line[i] = Absent THEN ArgDefault(env, i)
                        ELSE ArgType(i, line[i])]

\* DorisConfig.from_env(): the environment's value where one is set, the
\* built-in default otherwise.
from_env(env) ==
    [i \in Settings |-> IF env[i] = Absent THEN DefaultConfig[i]
                        ELSE ArgType(i, env[i])]

\* if args.x != _default_config.x: config.x = args.x, for each setting;
\* if args.db_password: config.database.password = args.db_password
Override(parsed, loaded) ==
    [i \in Settings |->
        IF i = DbPassword
        THEN IF parsed[i] # "" THEN parsed[i] ELSE loaded[i]
        ELSE IF parsed[i] # DefaultConfig[i] THEN parsed[i] ELSE loaded[i]]

ConfigIdle ==
    /\ cfgPc = "idle"
    /\ environ = <<>>
    /\ argv = <<>>
    /\ args = <<>>
    /\ config = <<>>

\* main() is entered with some environment and some command line.
ConfigStart ==
    /\ cfgPc = "start"
    /\ environ \in Environs
    /\ argv \in CommandLines
    /\ args = <<>>
    /\ config = <<>>

\* A plain start: nothing in the environment, nothing on the command line.
ConfigResolved ==
    /\ cfgPc = "resolved"
    /\ environ = [i \in Settings |-> Absent]
    /\ argv = [i \in Settings |-> Absent]
    /\ args = parse_args(environ, argv)
    /\ config = Override(args, from_env(environ))

\* parser = create_arg_parser(); args = parser.parse_args()
ParseArgs ==
    /\ cfgPc = "start"
    /\ cfgPc' = "parsed"
    /\ args' = parse_args(environ, argv)
    /\ UNCHANGED <<environ, argv, config, mainPc, transport, exitPending, exitCode,
                   dispatchVars, startVars, shutdownVars, requestVars, collab>>

\* config = DorisConfig.from_env(), then the overrides; server = DorisServer(config)
ResolveConfig ==
    /\ cfgPc = "parsed"
    /\ cfgPc' = "resolved"
    /\ config' = Override(args, from_env(environ))
    /\ UNCHANGED <<environ, argv, args, mainPc, transport, exitPending, exitCode,
                   dispatchVars, startVars, shutdownVars, requestVars, collab>>

(***************************************************************************)
(* main(): builds the server, awaits the start the transport selects,      *)
(* and shuts down.                                                         *)
(***************************************************************************)
\* --transport has choices stdio and http; a default read from TRANSPORT is
\* not checked against them.
Transports == {"stdio", "http", "sse"}

MainBuilt ==
    /\ mainPc = "main_entry"
    /\ transport \in Transports
    /\ exitPending = -1
    /\ exitCode = -1
    /\ ConfigResolved
MainIdle ==
    /\ mainPc = "idle"
    /\ transport = "none"
    /\ exitPending = -1
    /\ exitCode = -1
    /\ ConfigIdle

\* try: if args.transport == "stdio": ... elif "http": ... else: ...
MainSelect ==
    /\ mainPc = "main_entry"
    /\ IF transport = "stdio" THEN pc' = "stdio_entry" /\ mainPc' = "in_start"
       ELSE IF transport = "http" THEN pc' = "http_entry" /\ mainPc' = "in_start"
       ELSE pc' = pc /\ mainPc' = "unsupported"
    /\ UNCHANGED <<trace, startExc, initCalls, runScope, listener, stdioVars,
                   transport, exitPending, exitCode, configVars,
                   dispatchVars, requestVars, collab, shutdownVars>>

\* else: logger.error(...); await server.shutdown(); return 1
\* An exception of that shutdown() is one of the try block.
MainUnsupported ==
    /\ mainPc = "unsupported"
    /\ \E closed \in CloseOutcomes :
          /\ ShutdownCalled("unsupported", closed)
          /\ IF shutdown(closed) = NoExc
             THEN mainPc' = "finally" /\ exitPending' = 1
             ELSE mainPc' = "except" /\ exitPending' = exitPending
    /\ UNCHANGED <<configVars, transport, exitCode, startVars, dispatchVars, requestVars, collab>>

StartRaisedException == mainPc = "in_start" /\ pc = "raised" /\ IsException(startExc)
StartInterrupted ==
    mainPc = "in_start" /\ pc = "raised" /\ ExcKind(startExc) = "KeyboardInterrupt"
StartReturned == mainPc = "in_start" /\ pc = "returned"

\* except Exception as e: log; try: await server.shutdown()
\* except Exception: log; return 1
MainExcept ==
    /\ StartRaisedException \/ mainPc = "except"
    /\ \E closed \in CloseOutcomes : ShutdownCalled("except", closed)
    /\ mainPc' = "finally"
    /\ exitPending' = 1
    /\ UNCHANGED <<configVars, transport, exitCode, startVars, dispatchVars, requestVars, collab>>

\* A final clean-up that leaves the server as it is.
MainFinally_NoShutdown ==
    /\ mainPc = "finally" \/ StartReturned \/ StartInterrupted
    /\ mainPc' = "done"
    /\ exitCode' = (IF mainPc = "finally" THEN exitPending ELSE 0)
    /\ UNCHANGED <<configVars, transport, exitPending, shutdownVars,
                   startVars, dispatchVars, requestVars, collab>>

\* A main whose handlers all end in the same return.
MainFinally_AlwaysZero ==
    /\ mainPc = "finally" \/ StartReturned \/ StartInterrupted
    /\ \E closed \in CloseOutcomes : ShutdownCalled("finally", closed)
    /\ mainPc' = "done"
    /\ exitCode' = 0
    /\ UNCHANGED <<configVars, transport, exitPending, startVars, dispatchVars, requestVars, collab>>

\* A main that reports a failed clean-up through its exit code.
MainFinally_CloseDecides ==
    /\ mainPc = "finally" \/ StartReturned \/ StartInterrupted
    /\ \E closed \in CloseOutcomes :
          /\ ShutdownCalled("finally", closed)
          /\ exitCode' = (IF closed # NoExc THEN 1
                          ELSE IF mainPc = "finally" THEN exitPending ELSE 0)
    /\ mainPc' = "done"
    /\ UNCHANGED <<configVars, transport, exitPending, startVars, dispatchVars, requestVars, collab>>

\* except KeyboardInterrupt: log.  finally: try: await server.shutdown()
\* except Exception: log.  Then the pending return, or return 0.
MainFinally ==
    /\ mainPc = "finally" \/ StartReturned \/ StartInterrupted
    /\ \E closed \in CloseOutcomes : ShutdownCalled("finally", closed)
    /\ mainPc' = "done"
    /\ exitCode' = (IF mainPc = "finally" THEN exitPending ELSE 0)
    /\ UNCHANGED <<configVars, transport, exitPending, startVars, dispatchVars, requestVars, collab>>

(***************************************************************************)
(* A hosting process that uses the server directly: it calls one start     *)
(* and calls shutdown() whenever it likes.                                 *)
(***************************************************************************)
HostStart ==
    /\ pc = "idle"
    /\ pc' \in {"stdio_entry", "http_entry"}
    /\ UNCHANGED <<trace, startExc, initCalls, runScope, listener, stdioVars,
                   dispatchVars, requestVars, collab, shutdownVars, mainVars>>

HostShutdown ==
    /\ closeCalls < MaxShutdowns
    /\ \E closed \in CloseOutcomes : ShutdownCalled("host", closed)
    /\ UNCHANGED <<startVars, dispatchVars, requestVars, collab, mainVars>>

(***************************************************************************)
(* The collaborators (the three managers and the connection manager) fail  *)
(* and recover on their own.                                               *)
(***************************************************************************)
CollabStates == {"healthy", "managers_failing", "connection_failing", "all_failing"}

CollaboratorChange ==
    /\ \E c \in CollabStates \ {collab} : collab' = c
    /\ UNCHANGED <<dispatchVars, startVars, requestVars, shutdownVars, mainVars>>

(***************************************************************************)
(* Specifications.                                                         *)
(***************************************************************************)
InitDispatch ==
    DispatcherBuilt /\ StartBuilt("idle") /\ MainIdle /\ RequestIdle /\ collab = "healthy"
SpecDispatch == InitDispatch /\ [][NextDispatch]_vars

\* start_http has been called on a server just built.
InitHttp ==
    /\ DispatcherBuilt /\ StartBuilt("http_entry") /\ MainIdle /\ RequestIdle
    /\ collab \in CollabStates
NextHttp ==
    \/ HttpInitialize
    \/ HttpEnterRun
    \/ HttpServe
    \/ HttpServeEnd
    \/ HandleRequest
    \/ CompleteRequest
    \/ CollaboratorChange
SpecHttp == InitHttp /\ [][NextHttp]_vars

\* main() has parsed its arguments and built the server.
InitMain ==
    /\ DispatcherBuilt /\ StartBuilt("idle") /\ MainBuilt /\ RequestIdle
    /\ collab \in CollabStates
NextMain ==
    \/ MainSelect
    \/ StdioInitialize
    \/ StdioOpenStreams
    \/ StdioNegotiate
    \/ StdioRun
    \/ StdioRunEnd
    \/ HttpInitialize
    \/ HttpEnterRun
    \/ HttpServe
    \/ HttpServeEnd
    \/ MainUnsupported
    \/ MainExcept
    \/ MainFinally
SpecMain == InitMain /\ [][NextMain]_vars

\* A hosting process holds a server just built.
InitFacade ==
    /\ DispatcherBuilt /\ StartBuilt("idle") /\ MainIdle /\ RequestIdle
    /\ collab \in CollabStates
NextFacade ==
    \/ HostStart
    \/ StdioInitialize
    \/ StdioOpenStreams
    \/ StdioNegotiate
    \/ StdioRun
    \/ StdioRunEnd
    \/ HttpInitialize
    \/ HttpEnterRun
    \/ HttpServe
    \/ HttpServeEnd
    \/ HostShutdown
SpecFacade == InitFacade /\ [][NextFacade]_vars

\* main() is entered: the configuration is still to be resolved.
InitConfig ==
    /\ DispatcherBuilt /\ StartBuilt("idle") /\ RequestIdle /\ collab = "healthy"
    /\ mainPc = "idle" /\ transport = "none" /\ exitPending = -1 /\ exitCode = -1
    /\ ConfigStart
NextConfig ==
    \/ ParseArgs
    \/ ResolveConfig
SpecConfig == InitConfig /\ [][NextConfig]_vars

(***************************************************************************)
(* Properties of the dispatcher.                                           *)
(***************************************************************************)
\* The mapping a Python value denotes: what a JSON body is compared with.
RECURSIVE ItemsAsMap(_, _)
ValueOf(v) ==
    IF Tag(v) = "dict" THEN ParsedObj(ItemsAsMap(Items(v), Len(Items(v)))) ELSE v
ItemsAsMap(items, n) ==
    IF n = 0 THEN <<>>
    ELSE LET rest == ItemsAsMap(items, n - 1)
         IN  [k \in (DOMAIN rest) \cup {items[n][1]} |->
                 IF k = items[n][1] THEN ValueOf(items[n][2]) ELSE rest[k]]

\* The field names of the JSON object a text holds (none if it holds no object).
BodyFields(text) ==
    LET p == json_loads(text) IN IF p[1] = "obj" THEN DOMAIN p[2] ELSE {}

ManagerRaised == CallOp(lastCall) # "none" /\ MgrExc(mgrOutcome) # NoExc

\* C1: whenever the backing manager call raises, the handler returns
\* normally: a list handler returns the empty list, read_resource a body with
\* the fields {error, uri}, call_tool one content item whose body has the
\* fields {error, tool_name, arguments}, get_prompt a body with the fields
\* {error, prompt_name, arguments}.
C1_HandlersReturnOnManagerFailure ==
    ManagerRaised =>
        /\ Status(reply) = "return"
        /\ ExcOf(reply) = NoExc
        /\ CallOp(lastCall) \in {"list_resources", "list_tools", "list_prompts"} =>
               Shape(reply) = "list" /\ ListOf(reply) = <<>>
        /\ CallOp(lastCall) = "read_resource" =>
               Shape(reply) = "str" /\ BodyFields(TextOf(reply)) = {"error", "uri"}
        /\ CallOp(lastCall) = "call_tool" =>
               /\ Shape(reply) = "content"
               /\ Len(ContentOf(reply)) = 1
               /\ BodyFields(ContentText(ContentOf(reply)[1]))
                      = {"error", "tool_name", "arguments"}
        /\ CallOp(lastCall) = "get_prompt" =>
               /\ Shape(reply) = "str"
               /\ BodyFields(TextOf(reply)) = {"error", "prompt_name", "arguments"}

\* C1 witness: get_prompt was called, its manager raised, and the handler
\* returned the error body.
C1_Witness ==
    /\ CallOp(lastCall) = "get_prompt"
    /\ MgrExc(mgrOutcome) = Exc("Exception", "boom")
    /\ Status(reply) = "return"
    /\ StrKind(TextOf(reply)) = "json"

\* C2: when call_tool(n, a) of the tools manager raises with message m,
\* handle_call_tool returns exactly one text content item whose JSON body
\* equals {"error": "Tool call failed: " + m, "tool_name": n, "arguments": a};
\* when the manager returns text t, it returns exactly one text content item
\* whose text is t.
C2_CallToolResult ==
    CallOp(lastCall) = "call_tool" =>
        /\ Status(reply) = "return"
        /\ Len(ContentOf(reply)) = 1
        /\ ContentType(ContentOf(reply)[1]) = "text"
        /\ IF MgrExc(mgrOutcome) # NoExc
           THEN json_loads(ContentText(ContentOf(reply)[1])) =
                  ParsedObj([k \in {"error", "tool_name", "arguments"} |->
                      CASE k = "error" ->
                             PyStr("Tool call failed: " \o ExcMsg(MgrExc(mgrOutcome)))
                        [] k = "tool_name" -> PyStr(CallName(lastCall))
                        [] k = "arguments" -> ValueOf(CallArgs(lastCall))])
           ELSE ContentText(ContentOf(reply)[1]) = Plain(MgrTextOf(mgrOutcome))

\* C2 witness: call_tool("x", {"a": "boom", "arguments": {"a": 1}}) whose
\* manager raised "boom" has been answered.
C2_Witness ==
    /\ CallOp(lastCall) = "call_tool"
    /\ CallName(lastCall) = "x"
    /\ CallArgs(lastCall) =
           PyDict(<< <<"a", PyStr("boom")>>,
                     <<"arguments", PyDict(<<<<"a", PyInt(1)>>>>)>> >>)
    /\ MgrExc(mgrOutcome) = Exc("Exception", "boom")
    /\ Len(ContentOf(reply)) = 1

(***************************************************************************)
(* Properties of mcp_app and start_http.                                   *)
(***************************************************************************)
Handled == req # NoScope
IsMcpPath(path) == path = McpPath \/ StartsWith(path, McpPath \o Slash)
\* The Accept header of a scope; of several, the last.
AcceptOf(sc) == HeadersGet(Headers(sc), "accept", Len(Headers(sc)))
AllDecodable(sc) == \A i \in DOMAIN Headers(sc) : Decodable(Headers(sc)[i][2])
InternalServerError == Response(Plain("Internal Server Error"), 500)
NotFound == Response(Plain("Not Found"), 404)

Before(first, second) ==
    \A i \in DOMAIN trace :
        trace[i] = second => \E j \in 1..(i - 1) : trace[j] = first
Happened(event) == \E i \in DOMAIN trace : trace[i] = event

\* C4: start_http calls connection_manager.initialize() exactly once, and
\* it has completed before the run scope is entered and before serve()
\* begins; if initialize() raises, serve() is never called and the
\* exception leaves start_http.
C4_InitializeBeforeServing ==
    /\ initCalls <= 1
    /\ pc # "http_entry" => initCalls = 1
    /\ Before("initialize_ok", "run_enter")
    /\ Before("initialize_ok", "serve")
    /\ (runScope # "none" \/ listener # "none") => Happened("initialize_ok")
    /\ Happened("initialize_raised") =>
           /\ ~Happened("serve")
           /\ listener = "none"
           /\ runScope = "none"
           /\ pc = "raised"
           /\ startExc \in InitOutcomes \ {NoExc}

\* C4 witness: the listener serves after the one initialize() completed.
C4_Witness ==
    /\ listener = "serving"
    /\ initCalls = 1
    /\ trace = <<"initialize", "initialize_ok", "run_enter", "serve">>

\* C5 (as claimed): whenever an exception is raised while a request is
\* handled, the client receives 500 "Internal Server Error" and no exception
\* leaves mcp_app.
C5_Original ==
    (Handled /\ raisedIn # NoExc) =>
        /\ sends = <<InternalServerError>>
        /\ escaped = NoExc

\* C6 (as claimed): a request whose path is not /health, not /mcp and not
\* under /mcp/ is answered 404 "Not Found" and is not forwarded.
C6_Original ==
    (Handled /\ Path(req) # HealthPath /\ ~IsMcpPath(Path(req))) =>
        /\ sends = <<NotFound>>
        /\ fwd = NoScope

\* C7: while the listener serves, every GET /health is answered 200 with the
\* JSON body {"status": "healthy", "service": "doris-mcp-server"}, whatever
\* the collaborators' state, and does not reach the session manager.
C7_HealthAlways200 ==
    (Handled /\ Method(req) = "GET" /\ Path(req) = HealthPath) =>
        /\ Len(sends) = 1
        /\ StatusOf(sends[1]) = 200
        /\ json_loads(BodyOf(sends[1])) =
               ParsedObj([k \in {"status", "service"} |->
                   IF k = "status" THEN PyStr("healthy")
                   ELSE PyStr("doris-mcp-server")])
        /\ fwd = NoScope
        /\ escaped = NoExc

\* C7 witness: GET /health was answered while every collaborator fails.
C7_Witness ==
    /\ Handled
    /\ Method(req) = "GET"
    /\ Path(req) = HealthPath
    /\ collab = "all_failing"
    /\ listener = "serving"
    /\ Len(sends) = 1

(***************************************************************************)
(* Properties of shutdown() and main().                                    *)
(***************************************************************************)
\* C8: shutdown() is idempotent: however often it is called, and whether
\* the server was never started, is started or was shut down before, every
\* call returns normally.
C8_ShutdownAlwaysReturns ==
    /\ closeCalls = Len(shutdownLog)
    /\ \A i \in DOMAIN shutdownLog : EndOf(shutdownLog[i]) = "returned"

\* C8 witness: three calls in succession on a server never started, the
\* first of which met a failing close().
C8_Witness ==
    /\ initCalls = 0
    /\ Len(shutdownLog) = 3
    /\ ClosedOf(shutdownLog[1]) # NoExc
    /\ ClosedOf(shutdownLog[3]) = NoExc

MainDone == mainPc = "done"
Supported == transport \in {"stdio", "http"}
StartFailed == pc = "raised" /\ IsException(startExc)
StartEndedByInterrupt == pc = "raised" /\ ExcKind(startExc) = "KeyboardInterrupt"
Sites == [i \in DOMAIN shutdownLog |-> SiteOf(shutdownLog[i])]

\* C9: main() returns 0 exactly when the selected start returned normally
\* or was ended by the interrupt signal, and 1 exactly when the transport
\* is unsupported or the start raised any other failure.
C9_ExitCode ==
    MainDone =>
        /\ exitCode \in {0, 1}
        /\ exitCode = 0 <=> (Supported /\ (pc = "returned" \/ StartEndedByInterrupt))
        /\ exitCode = 1 <=> (~Supported \/ StartFailed)

\* C9 witness: main() has returned 0 after an interrupt ended start_http.
C9_Witness ==
    /\ MainDone
    /\ transport = "http"
    /\ StartEndedByInterrupt
    /\ Happened("serve")
    /\ exitCode = 0

\* C10: on every path through main(), shutdown() has been called at least
\* once when main() returns, the last time in the final clean-up; when the
\* start raised a failure other than the interrupt, it was called in the
\* failure handler and once more in the final clean-up, and the exit code
\* is 1.
C10_ShutdownOnEveryPath ==
    MainDone =>
        /\ Len(shutdownLog) >= 1
        /\ Sites[Len(Sites)] = "finally"
        /\ (Supported /\ StartFailed) =>
               Sites = <<"except", "finally">> /\ exitCode = 1

\* C10 witness: start_stdio failed while serving, and main() returned after
\* both calls of shutdown().
C10_Witness ==
    /\ MainDone
    /\ transport = "stdio"
    /\ StartFailed
    /\ Happened("run")
    /\ Sites = <<"except", "finally">>
    /\ exitCode = 1

CloseFailed(entry) == ClosedOf(entry) # NoExc
LastShutdown == shutdownLog[Len(shutdownLog)]

\* C11: a call of shutdown() during which connection_manager.close() raises
\* still returns; such a call leaves the outcome of the start as it was (the
\* failure main() handles stays the start's own), and the exit code main()
\* returns is the one the start alone decides: 1 for an unsupported
\* transport or a failed start, 0 otherwise.
C11_ShutdownFailureContained ==
    [][(closeCalls' = closeCalls + 1 /\ CloseFailed(LastShutdown'))
          => /\ EndOf(LastShutdown') = "returned"
             /\ pc' = pc
             /\ startExc' = startExc
             /\ trace' = trace
             /\ MainDone' => exitCode' = (IF Supported /\ ~StartFailed THEN 0 ELSE 1)
             /\ ~MainDone' => exitCode' = exitCode]_vars

\* C11 witness: start_http failed, close() raised in both calls of
\* shutdown(), both returned, and main() returned 1 with the start's failure
\* still the one on record.
C11_Witness ==
    /\ MainDone
    /\ transport = "http"
    /\ StartFailed
    /\ ExcMsg(startExc) = "listener failed"
    /\ Len(shutdownLog) = 2
    /\ \A i \in DOMAIN shutdownLog :
          CloseFailed(shutdownLog[i]) /\ EndOf(shutdownLog[i]) = "returned"
    /\ exitCode = 1

(***************************************************************************)
(* Properties of the configuration.                                        *)
(***************************************************************************)
FiveSettings == {DbHost, DbPort, DbUser, DbDatabase, LogLevel}

\* The value precedence gives a setting: the command line's word when one
\* is given, else the environment's, else the built-in default.
ByPrecedence(i) ==
    IF argv[i] # Absent THEN ArgType(i, argv[i])
    ELSE IF environ[i] # Absent THEN ArgType(i, environ[i])
    ELSE DefaultConfig[i]

\* C12: for db-host, db-port, db-user, db-database and log-level, the
\* configuration handed to the server holds the command line's value when
\* one is given (equal to the built-in default or not), otherwise the
\* environment's value when one is set, otherwise the built-in default.
C12_Original ==
    cfgPc = "resolved" => \A i \in FiveSettings : config[i] = ByPrecedence(i)

(***************************************************************************)
(* Properties of start_stdio and of the two starts together.               *)
(***************************************************************************)
InStdio == transport = "stdio" /\ pc # "idle"

\* C13: start_stdio calls connection_manager.initialize() before anything
\* else, once, and the stream pair is opened only after it has completed;
\* if initialize() raises, the streams are never opened, the serving loop
\* never runs, and the exception leaves start_stdio.
C13_StdioInitializeFirst ==
    InStdio =>
        /\ initCalls <= 1
        /\ pc # "stdio_entry" => initCalls = 1 /\ trace[1] = "initialize"
        /\ Before("initialize_ok", "streams_open")
        /\ Before("initialize_ok", "streams_open_raised")
        /\ (streams # "none" \/ stdioState # "Unstarted") => Happened("initialize_ok")
        /\ Happened("initialize_raised") =>
               /\ ~Happened("streams_open") /\ ~Happened("streams_open_raised")
               /\ ~Happened("run")
               /\ streams = "none"
               /\ stdioState = "Unstarted"
               /\ pc = "raised"
               /\ startExc \in InitOutcomes \ {NoExc}

\* C13 witness: initialize() raised in start_stdio; nothing was opened and
\* the failure left the method.
C13_Witness ==
    /\ InStdio
    /\ trace = <<"initialize", "initialize_raised", "log_outer">>
    /\ pc = "raised"
    /\ startExc = Exc("Exception", "connect failed")
    /\ streams = "none"

StartOver == pc \in {"returned", "raised"}

\* C14: in start_http the run scope of the session manager is entered
\* before serve() begins; once serve() has returned or raised, the run
\* scope has been left by the time start_http returns or raises, and before
\* the failure is logged; the listener never serves outside the run scope.
C14_RunScopeAroundListener ==
    /\ Before("run_enter", "serve")
    /\ listener = "serving" => runScope = "active"
    /\ \A i \in DOMAIN trace :
          trace[i] = "run_exit" => i > 1 /\ trace[i - 1] \in {"serve_end", "serve_raised"}
    /\ Before("run_exit", "log_error") \/ ~Happened("serve")
    /\ (StartOver /\ Happened("serve")) =>
           /\ listener = "stopped"
           /\ runScope = "exited"
           /\ Happened("serve_end") \/ Happened("serve_raised")
           /\ Happened("run_exit")

\* C14 witness: serve() raised an aggregate failure; the run scope was left
\* before start_http logged it and raised.
C14_Witness ==
    /\ pc = "raised"
    /\ ExcKind(startExc) = "ExceptionGroup"
    /\ trace = <<"initialize", "initialize_ok", "run_enter", "serve",
                 "serve_raised", "run_exit", "log_error">>
    /\ runScope = "exited"
    /\ listener = "stopped"

StdioOrder == <<"Unstarted", "StreamsOpen", "CapabilitiesNegotiated", "Serving", "Closed">>
Rank(state) == CHOOSE i \in DOMAIN StdioOrder : StdioOrder[i] = state
HoldingStreams == {"StreamsOpen", "CapabilitiesNegotiated", "Serving"}
In(tr, event) == \E i \in DOMAIN tr : tr[i] = event
Precedes(tr, first, second) ==
    \A i \in DOMAIN tr : tr[i] = second => \E j \in 1..(i - 1) : tr[j] = first

\* C15: the stdio adapter changes state only to the next state of
\* Unstarted, StreamsOpen, CapabilitiesNegotiated, Serving, Closed, or, while
\* it holds the streams, to Closed; it never goes back.  The streams are
\* held exactly in the three middle states, and whenever start_stdio is
\* over after the streams were opened (end of stream, one failure, an
\* aggregate of failures) the adapter is Closed and the streams were
\* released before the failure was logged and raised to the caller.
C15_StdioStateOrder ==
    [][/\ stdioState' # stdioState =>
            \/ Rank(stdioState') = Rank(stdioState) + 1
            \/ stdioState \in HoldingStreams /\ stdioState' = "Closed"
       /\ streams' = "open" <=> stdioState' \in HoldingStreams
       /\ stdioState' = "Closed" => streams' = "released"
       /\ (pc' \in {"returned", "raised"} /\ In(trace', "streams_open")) =>
              /\ stdioState' = "Closed"
              /\ In(trace', "streams_released")
              /\ Precedes(trace', "streams_released", "log_inner")
              /\ Precedes(trace', "streams_released", "log_outer")
              /\ (pc' = "raised" /\ IsException(startExc')) =>
                     In(trace', "log_inner") /\ In(trace', "log_outer")
       /\ pc' = "returned" => startExc' = NoExc]_vars

\* C15 witness: the adapter went through all five states and the serving
\* loop ended in an aggregate failure, logged after the streams were
\* released.
C15_Witness ==
    /\ stdioState = "Closed"
    /\ streams = "released"
    /\ pc = "raised"
    /\ ExcKind(startExc) = "ExceptionGroup"
    /\ trace = <<"initialize", "initialize_ok", "streams_open", "capabilities",
                 "run", "run_raised", "streams_released", "log_inner", "log_outer">>

RaisedEvents ==
    {"initialize_raised", "streams_open_raised", "capabilities_raised", "run_raised",
     "run_enter_raised", "serve_raised"}
SomethingRaised == \E ev \in RaisedEvents : Happened(ev)
LogEvents == {"log_inner", "log_outer", "log_error"}

\* C16: once initialize(), the opening of the stdio streams, the negotiation
\* of capabilities, the serving loop, the run scope of the session manager
\* or serve() has raised, the start method ends by raising: it never
\* returns normally; what it raises is a failure (one or an aggregate) that
\* it logged last before raising, or the interrupt, which it lets pass.
C16_StartNeverSwallows ==
    /\ SomethingRaised =>
           /\ pc = "raised"
           /\ startExc # NoExc
           /\ IsException(startExc) => trace[Len(trace)] \in LogEvents
    /\ pc = "returned" => ~SomethingRaised /\ startExc = NoExc
    /\ pc = "raised" => SomethingRaised

\* C16 witness: entering the run scope of the session manager failed in
\* start_http; the failure was logged and raised to main().
C16_Witness ==
    /\ transport = "http"
    /\ trace = <<"initialize", "initialize_ok", "run_enter_raised", "log_error">>
    /\ pc = "raised"
    /\ startExc = Exc("Exception", "session manager failed")

(***************************************************************************)
(* Properties of the routing in mcp_app and of the bindings.               *)
(***************************************************************************)
Forwarded == fwd # NoScope

\* C17 (as claimed): a request is forwarded to the session manager if and
\* only if its path is /mcp or starts with /mcp/, whatever its method; a
\* request of the health route or of any other path is never forwarded.
C17_Original ==
    Handled => (Forwarded <=> IsMcpPath(Path(req)))

BindingsOf(op) == {i \in DOMAIN handlers : handlers[i][1] = op}

\* C18: in every state exactly one handler is bound to each of the six
\* operations, and the bindings are those made when the server was
\* constructed: no call, whether its manager fails or not, adds, removes or
\* replaces one.
C18_OneHandlerPerOperation ==
    /\ Cardinality(Operations) = 6
    /\ \A op \in Operations : Cardinality(BindingsOf(op)) = 1
    /\ Len(handlers) = 6
    /\ handlers = SetupHandlers

\* C18 witness: call_tool was called, its manager raised, and the handler
\* returned the error body; the bindings are as constructed.
C18_Witness ==
    /\ CallOp(lastCall) = "call_tool"
    /\ MgrExc(mgrOutcome) = Exc("Exception", "boom")
    /\ Status(reply) = "return"
    /\ handlers = SetupHandlers

\* C19: what is forwarded differs from what was received in nothing but the
\* values of Accept headers: method, path, the number of headers, the name
\* of every header and the value of every header other than Accept are the
\* same, position by position; a request that is not a GET is forwarded with
\* the very headers received; and the scope uvicorn passed in, its header
\* list included, is as it was once mcp_app is over.
C19_RewriteFrame ==
    Handled =>
        /\ scopeAfter = req
        /\ Forwarded =>
               /\ Method(fwd) = Method(req)
               /\ Path(fwd) = Path(req)
               /\ Len(Headers(fwd)) = Len(Headers(req))
               /\ \A i \in DOMAIN Headers(req) :
                      /\ Headers(fwd)[i][1] = Headers(req)[i][1]
                      /\ Headers(req)[i][1] # "accept" =>
                             Headers(fwd)[i] = Headers(req)[i]
               /\ Method(req) # "GET" => fwd = req

\* C19 witness: GET /mcp/x with Accept: text/event-stream followed by a
\* user-agent was forwarded with the Accept value extended, the user-agent
\* in its place, and the inbound scope untouched.
C19_Witness ==
    /\ req = Scope("GET", McpPath \o <<"/", "x">>,
                   << <<"accept", <<EventStream>>>>, <<"user-agent", <<"Dify">>>> >>)
    /\ fwd = Scope("GET", McpPath \o <<"/", "x">>,
                   << <<"accept", <<EventStream, ", ", AppJson>>>>,
                      <<"user-agent", <<"Dify">>>> >>)
    /\ scopeAfter = req

\* C20 (as claimed): for every request at most one response is handed to
\* send to begin; the 500 fallback is built only for a request for which
\* no response has begun.
C20_Original ==
    Handled =>
        /\ Len(starts) <= 1
        /\ fallback500 => starts = <<InternalServerError>>

====
